---- MODULE Spec2Model ----
(***************************************************************************)
(* A model of the todo command-line tool (src/src/main.rs).                *)
(*                                                                         *)
(* The task file is a sequence of bytes.  A string is a sequence of        *)
(* one-byte tokens: "a", ",", "LF" (line feed), "CR" (carriage return),    *)
(* "E2" (the byte 0xE2), and so on.  Every conversion of the program       *)
(* (to_csv, join, split, lines, parse, to_string) is computed on these     *)
(* sequences as the code computes it.                                      *)
(***************************************************************************)
EXTENDS Integers, Sequences, FiniteSets

VARIABLES
    file,       \* the bytes of ~/.todo (<<>> while the file is absent)
    exists,     \* whether ~/.todo exists
    inv,        \* the last finished invocation of a sequential run
    torn,       \* whether a write of the run has failed part-way
    procs,      \* the two racing invocations of the concurrent run
    race        \* bookkeeping of the concurrent run (who wrote last, ...)

vars == <<file, exists, inv, torn, procs, race>>

(***************************************************************************)
(* Bounds of the model.                                                    *)
(***************************************************************************)
\* add is not offered once the list read from the file has MaxTasks records
MaxTasks == 3

\* nor once the id of its last record has reached MaxId (the last id an i32
\* holds is kept, for the overflow of last_id + 1)
MaxId == 2

(***************************************************************************)
(* Bytes and strings.                                                      *)
(***************************************************************************)
LF == "LF"
CR == "CR"
Comma == ","

Digits == <<"0", "1", "2", "3", "4", "5", "6", "7", "8", "9">>

DigitSet == {Digits[i] : i \in 1..10}

DigitVal(c) == (CHOOSE i \in 1..10 : Digits[i] = c) - 1

\* main.rs line 253: the bytes of the literal assigned to todo.done
CheckMark == <<"C3", "A2", "C5", "93", "E2", "80", "9C">>

\* main.rs lines 209-215: the header names of a file without a first line
DefaultHeaders ==
    << <<"i", "d">>, <<"d", "a", "t", "e">>, <<"t", "i", "t", "l", "e">>,
       <<"u", "r", "l">>, <<"d", "o", "n", "e">> >>

RECURSIVE Join(_, _)
\* [String]::join(sep)
Join(v, sep) ==
    IF Len(v) = 0 THEN <<>>
    ELSE IF Len(v) = 1 THEN v[1]
    ELSE v[1] \o sep \o Join(Tail(v), sep)

\* str::split(c): the pieces between the occurrences of c, empty pieces
\* kept, so always at least one piece
Split(s, c) ==
    LET idx == {i \in 1..Len(s) : s[i] = c}
        n == Cardinality(idx)
        pos(j) == IF j = 0 THEN 0
                  ELSE IF j = n + 1 THEN Len(s) + 1
                  ELSE CHOOSE i \in idx : Cardinality({k \in idx : k < i}) = j - 1
    IN  [j \in 1..(n + 1) |-> SubSeq(s, pos(j - 1) + 1, pos(j) - 1)]

\* BufRead::lines: the pieces between line feeds; a piece ended by a line
\* feed loses one trailing carriage return; nothing follows the last line feed
Lines(b) ==
    LET p == Split(b, LF)
        n == Len(p)
        strip(x) == IF Len(x) > 0 /\ x[Len(x)] = CR
                    THEN SubSeq(x, 1, Len(x) - 1) ELSE x
        ended == [i \in 1..(n - 1) |-> strip(p[i])]
    IN  IF Len(p[n]) = 0 THEN ended ELSE ended \o <<p[n]>>

\* the number of continuation bytes a byte asks for (-1: a continuation byte)
Utf8Follow(b) ==
    IF b \in {"C3", "C5"} THEN 1
    ELSE IF b = "E2" THEN 2
    ELSE IF b \in {"A2", "93", "80", "9C"} THEN -1
    ELSE 0

\* whether lines() yields Ok for this line (String::from_utf8): every lead
\* byte has its continuation bytes, every continuation byte its lead byte
Utf8Valid(s) ==
    \A i \in 1..Len(s) :
        LET n == Utf8Follow(s[i])
        IN  IF n >= 0
            THEN /\ i + n <= Len(s)
                 /\ \A j \in (i + 1)..(i + n) : Utf8Follow(s[j]) = -1
            ELSE \/ i > 1 /\ Utf8Follow(s[i - 1]) >= 1
                 \/ i > 2 /\ Utf8Follow(s[i - 2]) = 2 /\ Utf8Follow(s[i - 1]) = -1

I32Max == 2147483647

I32Min == 0 - I32Max - 1

RECURSIVE ParseDigits(_, _, _)
\* the digits of an i32 accumulated as the parser does, 10 * acc + d for a
\* positive and 10 * acc - d for a negative number, Err once out of range
ParseDigits(s, acc, neg) ==
    IF Len(s) = 0 THEN [ok |-> TRUE, val |-> acc]
    ELSE LET d == DigitVal(s[1])
             lo == (I32Min + d) \div 10 + (IF (I32Min + d) % 10 = 0 THEN 0 ELSE 1)
         IN  IF neg
             THEN IF acc < lo THEN [ok |-> FALSE, val |-> 0]
                  ELSE ParseDigits(Tail(s), 10 * acc - d, neg)
             ELSE IF acc > (I32Max - d) \div 10 THEN [ok |-> FALSE, val |-> 0]
                  ELSE ParseDigits(Tail(s), 10 * acc + d, neg)

\* str::parse::<i32>: an optional sign, then at least one digit, in range
ParseI32(s) ==
    LET signed == Len(s) > 0 /\ s[1] \in {"+", "-"}
        body == IF signed THEN Tail(s) ELSE s
        wellFormed == Len(body) > 0 /\ \A i \in 1..Len(body) : body[i] \in DigitSet
    IN  IF wellFormed THEN ParseDigits(body, 0, signed /\ s[1] = "-")
        ELSE [ok |-> FALSE, val |-> 0]

RECURSIVE NatToString(_)
NatToString(n) ==
    IF n < 10 THEN <<Digits[n + 1]>>
    ELSE NatToString(n \div 10) \o <<Digits[(n % 10) + 1]>>

RECURSIVE NegToString(_)
\* the digits of a negative number (its opposite may not be an i32)
NegToString(n) ==
    LET r == n % 10
        d == IF r = 0 THEN 0 ELSE 10 - r
        q == IF r = 0 THEN n \div 10 ELSE n \div 10 + 1
    IN  IF q = 0 THEN <<Digits[d + 1]>> ELSE NegToString(q) \o <<Digits[d + 1]>>

\* i32::to_string
ToString(n) == IF n < 0 THEN <<"-">> \o NegToString(n) ELSE NatToString(n)

(***************************************************************************)
(* Todo and Todos (main.rs lines 150-182).                                 *)
(***************************************************************************)
\* Todo::new
TodoNew(id, date, title, url, done) ==
    [id |-> id, date |-> date, title |-> title, url |-> url, done |-> done]

\* Todo::to_csv: format!("{},{},{},{},{}", id, date, title, url, done)
ToCsv(t) ==
    t.id \o <<Comma>> \o t.date \o <<Comma>> \o t.title \o <<Comma>>
         \o t.url \o <<Comma>> \o t.done

\* Todos::to_vec
ToVec(todos) == [i \in 1..Len(todos.records) |-> ToCsv(todos.records[i])]

NoTodos == [headers |-> <<>>, records |-> <<>>]

\* v[i] of a Vec, i counted from 0: out of bounds panics
InBounds(v, i) == i < Len(v)

\* a read that took only lines of exactly five pieces
FieldsPanicUnlessFive(v) == Len(v) # 5

\* the closure of Todos::read (main.rs lines 192-201) on the pieces v of one
\* line: the pieces 0 to 4 taken by index
FieldsPanic(v) == \E i \in 0..4 : ~InBounds(v, i)

FieldsTodo(v) == TodoNew(v[1], v[2], v[3], v[4], v[5])

\* Todos::read on the bytes of the opened file.  It panics when a line is
\* not UTF-8 or when a line after the first lacks one of the pieces 0..4;
\* the headers are the pieces of the first line, or the default ones
TodosRead(bytes) ==
    LET bufs == Lines(bytes)
        fields == [i \in 1..Len(bufs) |-> Split(bufs[i], Comma)]
        panics == \/ \E i \in 1..Len(bufs) : ~Utf8Valid(bufs[i])
                  \/ \E i \in 2..Len(bufs) : FieldsPanic(fields[i])
    IN  [panics |-> panics,
         todos |-> IF panics THEN NoTodos
                   ELSE [headers |-> IF Len(bufs) > 0 THEN fields[1]
                                     ELSE DefaultHeaders,
                         records |-> IF Len(bufs) > 1
                                     THEN [i \in 1..(Len(bufs) - 1) |->
                                              FieldsTodo(fields[i + 1])]
                                     ELSE <<>>]]

\* the string Todos::save writes: format!("{}\n{}", headers.join(","),
\* to_vec().join("\n"))
SaveString(todos) ==
    Join(todos.headers, <<Comma>>) \o <<LF>> \o Join(ToVec(todos), <<LF>>)

\* OpenOptions::truncate(t) at open
OpenTruncate(bytes, t) == IF t THEN <<>> ELSE bytes

\* what write_all would do on a file opened with append
WriteAtEnd(bytes, s) == bytes \o s

\* write_all on a file just opened without append: the bytes go to offset 0
\* and replace what is there; what lies beyond them stays
WriteAtStart(bytes, s) == s \o SubSeq(bytes, Len(s) + 1, Len(bytes))

\* position of the first record with this id (0: none), r.id == id on strings
Position(todos, id) ==
    LET hits == {i \in 1..Len(todos.records) : todos.records[i].id = id}
    IN  IF hits = {} THEN 0 ELSE CHOOSE i \in hits : \A j \in hits : i <= j

\* a done that marked every record of the id
TodosDoneAll(todos, id) ==
    [todos EXCEPT !.records =
        [i \in 1..Len(@) |-> IF @[i].id = id THEN [@[i] EXCEPT !.done = CheckMark]
                                              ELSE @[i]]]

\* Todos::done: Err when no record has the id
DoneFails(todos, id) == Position(todos, id) = 0

TodosDone(todos, id) ==
    LET i == Position(todos, id)
    IN  [todos EXCEPT !.records[i].done = CheckMark]

\* a delete that removed every record of the id
TodosDeleteAll(todos, id) ==
    LET Keep[n \in 0..Len(todos.records)] ==
            IF n = 0 THEN <<>>
            ELSE IF todos.records[n].id = id THEN Keep[n - 1]
            ELSE Append(Keep[n - 1], todos.records[n])
    IN  [todos EXCEPT !.records = Keep[Len(todos.records)]]

\* Todos::delete: Err when no record has the id
DeleteFails(todos, id) == Position(todos, id) = 0

TodosDelete(todos, id) ==
    LET i == Position(todos, id)
        r == todos.records
    IN  [todos EXCEPT !.records = SubSeq(r, 1, i - 1) \o SubSeq(r, i + 1, Len(r))]

\* an add that counted from 1 on an empty list
LastIdFromOne(todos) ==
    IF Len(todos.records) = 0 THEN [ok |-> TRUE, val |-> 1]
    ELSE ParseI32(todos.records[Len(todos.records)].id)

\* Todos::add, the id of the last record parsed: l.id.parse().unwrap()
LastId(todos) ==
    IF Len(todos.records) = 0 THEN [ok |-> TRUE, val |-> 0]
    ELSE ParseI32(todos.records[Len(todos.records)].id)

\* last_id + 1 on i32: beyond I32Max a build with overflow checks panics
AddOverflows(todos) == LastId(todos).val = I32Max

\* and a build without them wraps
NextId(todos) ==
    IF AddOverflows(todos) THEN I32Min ELSE LastId(todos).val + 1

\* whether add panics; checked: the build checks arithmetic overflow
AddPanics(todos, checked) ==
    \/ ~LastId(todos).ok
    \/ AddOverflows(todos) /\ checked

TodosAdd(todos, date, title, url) ==
    [todos EXCEPT !.records =
        Append(@, TodoNew(ToString(NextId(todos)), date, title, url, <<>>))]

\* Todos::clear
TodosClear(todos) == [todos EXCEPT !.records = <<>>]

(***************************************************************************)
(* Inputs of the invocations.                                              *)
(***************************************************************************)
\* todo add b c --date d --url u
AddFlags == [args |-> << <<"b">>, <<"c">> >>, date |-> <<"d">>, url |-> <<"u">>]

\* todo add (no title)
AddNothing == [args |-> <<>>, date |-> <<>>, url |-> <<>>]

\* todo add 'a<LF>b'
AddLineFeed == [args |-> << <<"a", LF, "b">> >>, date |-> <<>>, url |-> <<>>]

\* todo add 'x,,,<LF>3,,y,,<LF>1,,z': the record is written as three lines,
\* the first of six pieces
AddLines ==
    [args |-> << <<"x", Comma, Comma, Comma, LF, "3", Comma, Comma, "y", Comma,
                   Comma, LF, "1", Comma, Comma, "z">> >>,
     date |-> <<>>, url |-> <<>>]

\* todo add 'x,,<LF>2147483647,,y'
AddBigId ==
    [args |-> << <<"x", Comma, Comma, LF>> \o ToString(I32Max)
                 \o <<Comma, Comma, "y">> >>,
     date |-> <<>>, url |-> <<>>]

AddInputs == {AddFlags, AddNothing, AddLineFeed, AddLines, AddBigId}

\* the inputs without a comma or a line feed
CleanAddInputs == {AddFlags, AddNothing}

\* the arguments of delete and done: one id (0 is the id of no task), none,
\* or two
IdArgs ==
    {<<ToString(i)>> : i \in 0..(MaxId + 1)}
        \cup {<<>>, <<ToString(1), ToString(2)>>}

\* what the file system does to an invocation: nothing, or it refuses the
\* open of Todos::read, the open of Todos::save, or a write of write_all
Faults == {"none", "open_read", "open_save", "write"}

NoFaults == {"none"}

(***************************************************************************)
(* A sequential run: one invocation after the other, each a whole handler. *)
(* inv records how the last one went: stage is where it ended, before the  *)
(* list Todos::read returned, after the list the operation left, exit the  *)
(* exit status (exit(1): 1, a panic: 101, a return from main: 0); for an   *)
(* add that directly follows a delete that saved, deleted is the argument  *)
(* of that delete.                                                         *)
(* Standard output (print_list) is not part of the state.                  *)
(***************************************************************************)
ExitOk == 0
ExitError == 1
ExitPanic == 101

Finish(cmd, arg, stage, code, before, after, bytes, present) ==
    /\ inv' = [cmd |-> cmd, arg |-> arg, stage |-> stage, exit |-> code,
               before |-> before, after |-> after,
               fileBefore |-> file, existedBefore |-> exists,
               deleted |-> IF cmd = "add" /\ inv.cmd = "delete" /\ inv.stage = "saved"
                           THEN inv.arg ELSE <<>>]
    /\ file' = bytes
    /\ exists' = present
    /\ torn' = (torn \/ stage = "write")
    /\ UNCHANGED <<procs, race>>

\* Todos::save(t) of the list the operation left: the open, then write_all,
\* which a fault stops after any k of its bytes (once in a run)
Save(cmd, arg, before, left, t, fault) ==
    \E after \in {left} :
    \E s \in {SaveString(after)} :
        LET opened == OpenTruncate(file, t)
        IN  IF fault = "open_save"
            THEN Finish(cmd, arg, "open_save", ExitPanic, before, after, file, TRUE)
            ELSE IF fault = "write"
            THEN /\ ~torn
                 /\ \E k \in 0..(Len(s) - 1) :
                        Finish(cmd, arg, "write", ExitPanic, before, after,
                               WriteAtStart(opened, SubSeq(s, 1, k)), TRUE)
            ELSE Finish(cmd, arg, "saved", ExitOk, before, after,
                        WriteAtStart(opened, s), TRUE)

\* a handler that turned a failure of Todos::read into exit(1)
ReadEndsWithError(cmd, fault) ==
    IF fault = "open_read"
    THEN Finish(cmd, <<>>, "open_read", ExitError, NoTodos, NoTodos, file, exists)
    ELSE Finish(cmd, <<>>, "read", ExitError, NoTodos, NoTodos, file, TRUE)

\* whether Todos::read() ends the handler: its open fails, or it panics
ReadStops(r, fault) == fault = "open_read" \/ r.panics

\* the open of Todos::read creates the file
ReadEnds(cmd, fault) ==
    IF fault = "open_read"
    THEN Finish(cmd, <<>>, "open_read", ExitPanic, NoTodos, NoTodos, file, exists)
    ELSE Finish(cmd, <<>>, "read", ExitPanic, NoTodos, NoTodos, file, TRUE)

\* ls_action (also the action of the bare command)
LsCmd(faults) ==
    \E r \in {TodosRead(file)} :
        \E fault \in faults :
            IF ReadStops(r, fault) THEN ReadEnds("list", fault)
            ELSE Finish("list", <<>>, "listed", ExitOk, r.todos, r.todos, file, TRUE)

\* the action of add_command; checked: the build checks arithmetic overflow
AddCmd(inputs, faults) ==
    \E r \in {TodosRead(file)} :
        LET before == r.todos
        IN  \E in \in inputs, checked \in BOOLEAN, fault \in faults :
            LET title == Join(in.args, <<" ">>)
            IN  IF Len(in.args) = 0
                THEN Finish("add", <<>>, "usage", ExitError, NoTodos, NoTodos,
                            file, exists)
                ELSE IF ReadStops(r, fault) THEN ReadEnds("add", fault)
                ELSE /\ Len(before.records) < MaxTasks
                     /\ LastId(before).val < MaxId \/ AddOverflows(before)
                     /\ IF AddPanics(before, checked)
                        THEN Finish("add", title, "op", ExitPanic, before, before,
                                    file, TRUE)
                        ELSE Save("add", title, before,
                                  TodosAdd(before, in.date, title, in.url),
                                  FALSE, fault)

\* the action of delete_command
DeleteCmd(faults) ==
    \E r \in {TodosRead(file)} :
        LET before == r.todos
        IN  \E args \in IdArgs, fault \in faults :
            IF Len(args) # 1
            THEN Finish("delete", <<>>, "usage", ExitError, NoTodos, NoTodos,
                        file, exists)
            ELSE IF ReadStops(r, fault) THEN ReadEnds("delete", fault)
            ELSE IF DeleteFails(before, args[1])
            THEN Finish("delete", args[1], "op", ExitError, before, before,
                        file, TRUE)
            ELSE Save("delete", args[1], before, TodosDelete(before, args[1]),
                      TRUE, fault)

\* the action of done_command
DoneCmd(faults) ==
    \E r \in {TodosRead(file)} :
        LET before == r.todos
        IN  \E args \in IdArgs, fault \in faults :
            IF Len(args) # 1
            THEN Finish("done", <<>>, "usage", ExitError, NoTodos, NoTodos,
                        file, exists)
            ELSE IF ReadStops(r, fault) THEN ReadEnds("done", fault)
            ELSE IF DoneFails(before, args[1])
            THEN Finish("done", args[1], "op", ExitError, before, before,
                        file, TRUE)
            ELSE Save("done", args[1], before, TodosDone(before, args[1]),
                      FALSE, fault)

\* the action of clear_command (Todos::clear never returns Err)
ClearCmd(faults) ==
    \E r \in {TodosRead(file)} :
        \E fault \in faults :
            IF ReadStops(r, fault) THEN ReadEnds("clear", fault)
            ELSE Save("clear", <<>>, r.todos, TodosClear(r.todos), TRUE, fault)

\* before the first invocation the file is absent or empty
InitFile ==
    /\ file = <<>>
    /\ exists \in BOOLEAN
    /\ torn = FALSE
    /\ inv = [cmd |-> "none", arg |-> <<>>, stage |-> "none", exit |-> ExitOk,
              before |-> NoTodos, after |-> NoTodos,
              fileBefore |-> <<>>, existedBefore |-> exists,
              deleted |-> <<>>]

NoRace ==
    /\ procs = <<>>
    /\ race = <<>>

Init == InitFile /\ NoRace

Next ==
    \/ LsCmd(NoFaults)
    \/ AddCmd(AddInputs, NoFaults)
    \/ DeleteCmd(NoFaults)
    \/ DoneCmd(NoFaults)
    \/ ClearCmd(NoFaults)

\* a sequential run in which the file system never fails
Spec == Init /\ [][Next]_vars

NextIO ==
    \/ LsCmd(Faults)
    \/ AddCmd(CleanAddInputs, Faults)
    \/ DeleteCmd(Faults)
    \/ DoneCmd(Faults)
    \/ ClearCmd(Faults)

\* a sequential run on inputs without comma or line feed, in which an open
\* may fail and one write of write_all may fail after any number of bytes
SpecIO == Init /\ [][NextIO]_vars

(***************************************************************************)
(* A concurrent run: two mutating invocations on the same file, no lock.   *)
(* Each is three steps on the shared file: Todos::read (with the operation *)
(* on the list it holds), the open of Todos::save, and its write_all.      *)
(***************************************************************************)
Procs == {1, 2}

\* lists the program leaves in the file: after add; add, add; add, add, done 1
OneTask == TodosAdd([headers |-> DefaultHeaders, records |-> <<>>],
                    AddFlags.date, Join(AddFlags.args, <<" ">>), AddFlags.url)

TwoTasks == TodosAdd(OneTask, <<>>, <<"a">>, <<>>)

TwoTasksOneDone == TodosDone(TwoTasks, ToString(1))

StartFiles ==
    {<<>>, SaveString(OneTask), SaveString(TwoTasks), SaveString(TwoTasksOneDone)}

\* the racing command lines
RaceCmds ==
    {[cmd |-> "add", arg |-> <<>>], [cmd |-> "clear", arg |-> <<>>]}
        \cup {[cmd |-> c, arg |-> ToString(i)] : c \in {"delete", "done"},
                                                 i \in 1..MaxId}

\* whether the operation of the command returns Err on this list
OpFails(c, todos) ==
    \/ c.cmd = "delete" /\ DeleteFails(todos, c.arg)
    \/ c.cmd = "done" /\ DoneFails(todos, c.arg)

\* the list the operation of the command leaves
OpResult(c, todos) ==
    IF c.cmd = "add"
    THEN TodosAdd(todos, AddFlags.date, Join(AddFlags.args, <<" ">>), AddFlags.url)
    ELSE IF c.cmd = "delete" THEN TodosDelete(todos, c.arg)
    ELSE IF c.cmd = "done" THEN TodosDone(todos, c.arg)
    ELSE TodosClear(todos)

\* the truncate flag the handler passes to Todos::save
SaveTruncates(c) == c.cmd \in {"delete", "clear"}

\* Todos::read and the operation, in the memory of invocation p.  early:
\* no invocation has opened the file for saving yet
PRead(p) ==
    /\ procs[p].pc = "start"
    /\ \E r \in {TodosRead(file)} :
           procs' = [procs EXCEPT ![p] =
               IF r.panics
               THEN [@ EXCEPT !.pc = "panicked", !.exit = ExitPanic]
               ELSE IF OpFails(procs[p].c, r.todos)
               THEN [@ EXCEPT !.pc = "failed", !.exit = ExitError,
                              !.early = ~race.opened]
               ELSE [@ EXCEPT !.pc = "held", !.todos = OpResult(procs[p].c, r.todos),
                              !.early = ~race.opened]]
    /\ exists' = TRUE
    /\ UNCHANGED <<file, inv, torn, race>>

\* the open of Todos::save: it truncates the file for delete and clear
POpen(p) ==
    /\ procs[p].pc = "held"
    /\ file' = OpenTruncate(file, SaveTruncates(procs[p].c))
    /\ procs' = [procs EXCEPT ![p].pc = "opened"]
    /\ race' = [race EXCEPT !.opened = TRUE]
    /\ UNCHANGED <<exists, inv, torn>>

\* write_all and the return from main
PWrite(p) ==
    /\ procs[p].pc = "opened"
    /\ file' = WriteAtStart(file, SaveString(procs[p].todos))
    /\ procs' = [procs EXCEPT ![p].pc = "saved", ![p].exit = ExitOk]
    /\ race' = [race EXCEPT !.last = p]
    /\ UNCHANGED <<exists, inv, torn>>

InitConc ==
    /\ file \in StartFiles
    /\ exists = TRUE
    /\ torn = FALSE
    /\ inv = [cmd |-> "none", arg |-> <<>>, stage |-> "none", exit |-> ExitOk,
              before |-> NoTodos, after |-> NoTodos,
              fileBefore |-> <<>>, existedBefore |-> TRUE,
              deleted |-> <<>>]
    /\ procs \in [Procs -> {[pc |-> "start", c |-> c, todos |-> NoTodos,
                             early |-> FALSE, exit |-> ExitOk] : c \in RaceCmds}]
    /\ race = [opened |-> FALSE, last |-> 0, start |-> file]

NextConc == \E p \in Procs : PRead(p) \/ POpen(p) \/ PWrite(p)

SpecConc == InitConc /\ [][NextConc]_vars

(***************************************************************************)
(* The claims.                                                             *)
(***************************************************************************)
\* the last invocation got past Todos::read: inv.before is the list it read
ReadDone == inv.stage \in {"listed", "op", "open_save", "write", "saved"}

\* its operation returned Ok: inv.after is the list the operation left
OpDone == inv.stage \in {"open_save", "write", "saved"}

IdValues(todos) == {ParseI32(todos.records[i].id).val : i \in 1..Len(todos.records)}

SetMax(S) == CHOOSE m \in S : \A x \in S : x <= m

HasId(todos, id) == \E i \in 1..Len(todos.records) : todos.records[i].id = id

AllFields(todos) ==
    {todos.headers[i] : i \in 1..Len(todos.headers)}
        \cup UNION {{r.id, r.date, r.title, r.url, r.done} :
                      r \in {todos.records[i] : i \in 1..Len(todos.records)}}

Contains(str, c) == \E i \in 1..Len(str) : str[i] = c

IsPrefix(a, b) == Len(a) <= Len(b) /\ SubSeq(b, 1, Len(a)) = a

\* the lines after the first line of the file the last invocation read, each
\* taken apart at its commas
RecordLines ==
    LET bufs == Lines(inv.fileBefore)
    IN  [i \in 1..(Len(bufs) - 1) |-> Split(bufs[i + 1], Comma)]

\* the last invocation ran Todos::read, and its open succeeded
ReadRan == inv.stage \in {"read", "listed", "op", "open_save", "write", "saved"}

\* the serialization of the list invocation p holds
Held(p) == SaveString(procs[p].todos)

\* both racing invocations read before either opened the file for saving,
\* and both have written
BothReadFirstAndSaved ==
    \A p \in Procs : procs[p].pc = "saved" /\ procs[p].early

\* C1 (as claimed): an add gives the new task the id max(existing ids,
\* default 0) + 1 (where an i32 holds it), appends it at the end with an
\* empty done field, and leaves the existing tasks unchanged.
C1_AddGivesMaxPlusOne ==
    (inv.cmd = "add" /\ OpDone /\ SetMax(IdValues(inv.before) \cup {0}) < I32Max) =>
        LET b == inv.before.records
            a == inv.after.records
        IN  /\ Len(a) = Len(b) + 1
            /\ SubSeq(a, 1, Len(b)) = b
            /\ a[Len(a)].done = <<>>
            /\ a[Len(a)].id = ToString(SetMax(IdValues(inv.before) \cup {0}) + 1)

\* C2 (as claimed): in every state of a sequential run from an empty store
\* the ids of the tasks of the stored list are pairwise distinct.
C2_IdsDistinct ==
    \E r \in {TodosRead(file)} :
        ~r.panics =>
            \A i, j \in 1..Len(r.todos.records) :
                r.todos.records[i].id = r.todos.records[j].id => i = j

\* C3: delete(id) with a task of that id removes exactly one task, one with
\* that id, and leaves the others unchanged and in order; with no such task
\* it fails (exit 1), the list is not changed and the file is not written.
C3_DeleteRemovesExactlyOne ==
    (inv.cmd = "delete" /\ ReadDone) =>
        LET b == inv.before.records
            a == inv.after.records
        IN  IF HasId(inv.before, inv.arg)
            THEN /\ OpDone
                 /\ inv.after.headers = inv.before.headers
                 /\ Len(a) = Len(b) - 1
                 /\ \E i \in 1..Len(b) :
                        /\ b[i].id = inv.arg
                        /\ \A j \in 1..(i - 1) : a[j] = b[j]
                        /\ \A j \in i..Len(a) : a[j] = b[j + 1]
            ELSE /\ inv.stage = "op"
                 /\ inv.exit = ExitError
                 /\ inv.after = inv.before
                 /\ file = inv.fileBefore

C3_Witness ==
    /\ inv.cmd = "delete"
    /\ inv.stage = "saved"
    /\ Len(inv.before.records) >= 3
    /\ inv.before.records[1].id # inv.arg
    /\ inv.before.records[Len(inv.before.records)].id # inv.arg

\* C4: done(id) with a task of that id sets the done field of one task of
\* that id to the check mark and changes nothing else; with no such task it
\* fails (exit 1) and the file is not written.
C4_DoneChangesOnlyDone ==
    (inv.cmd = "done" /\ ReadDone) =>
        LET b == inv.before.records
            a == inv.after.records
        IN  IF HasId(inv.before, inv.arg)
            THEN /\ OpDone
                 /\ inv.after.headers = inv.before.headers
                 /\ Len(a) = Len(b)
                 /\ \E i \in 1..Len(b) :
                        /\ b[i].id = inv.arg
                        /\ a[i].done = CheckMark
                        /\ a[i].id = b[i].id /\ a[i].date = b[i].date
                        /\ a[i].title = b[i].title /\ a[i].url = b[i].url
                        /\ \A j \in 1..Len(b) : j # i => a[j] = b[j]
            ELSE /\ inv.stage = "op"
                 /\ inv.exit = ExitError
                 /\ inv.after = inv.before
                 /\ file = inv.fileBefore

C4_Witness ==
    /\ inv.cmd = "done"
    /\ inv.stage = "saved"
    /\ Len(inv.before.records) >= 2
    /\ \E i \in 1..Len(inv.before.records) :
           /\ inv.before.records[i].id = inv.arg
           /\ inv.before.records[i].done = <<>>
           /\ inv.after.records[i].done = CheckMark

\* C5 (as claimed): a list without a comma in any field, saved to an empty
\* or absent file, is read back the same, field for field.
C5_RoundTrip ==
    (/\ inv.stage = "saved"
     /\ inv.fileBefore = <<>>
     /\ \A f \in AllFields(inv.after) : ~Contains(f, Comma)) =>
        \E r \in {TodosRead(file)} : ~r.panics /\ r.todos = inv.after

\* C6 (as claimed): an invocation exits with 0 on success and with 1 on a
\* usage error, an unknown id or a file I/O failure.
C6_ExitOneOnIoFailure ==
    /\ inv.stage \in {"listed", "saved"} => inv.exit = 0
    /\ inv.stage \in {"usage", "open_read", "open_save", "write"} => inv.exit = 1
    /\ (inv.stage = "op" /\ inv.cmd \in {"delete", "done"}) => inv.exit = 1

\* C6 (amended): an invocation exits with 0 on success and with 1 on a usage
\* error or an unknown id; a file I/O failure, like a line Todos::read cannot
\* take apart, is a panic, and the exit status is 101.
C6_ExitCodes ==
    inv.cmd # "none" =>
        /\ inv.exit = 0 <=> inv.stage \in {"listed", "saved"}
        /\ inv.exit = 1 <=>
               \/ inv.stage = "usage"
               \/ inv.stage = "op" /\ inv.cmd \in {"delete", "done"}
                                   /\ ~HasId(inv.before, inv.arg)
        /\ inv.exit = 101 <=>
               \/ inv.stage \in {"open_read", "read", "open_save", "write"}
               \/ inv.stage = "op" /\ inv.cmd = "add"
        /\ inv.exit \in {0, 1, 101}

C6_Witness == inv.stage = "write" /\ inv.exit = 101 /\ file # inv.fileBefore

NewId == inv.after.records[Len(inv.after.records)].id

LastRead ==
    IF Len(inv.before.records) = 0 THEN 0
    ELSE ParseI32(inv.before.records[Len(inv.before.records)].id).val

\* an add that saved, directly after a delete that saved and whose id was
\* higher than every id left in the list
AddAfterDeleteOfHighest ==
    /\ inv.cmd = "add"
    /\ OpDone
    /\ inv.deleted # <<>>
    /\ ParseI32(inv.deleted).val > SetMax(IdValues(inv.before) \cup {0})

\* C8 (as claimed): when the task with the highest id is deleted and a task
\* is then added, the new task gets the id the deleted task had.
C8_ReusesDeletedId ==
    AddAfterDeleteOfHighest => NewId = inv.deleted

\* C8 (amended): when the task with the highest id is deleted and a task is
\* then added, the new task gets the id of the last remaining record plus
\* one (1 when none remains); that is the id the deleted task had exactly
\* when the deleted id was one more than the last remaining id.
C8_ReusesWhenNoGap ==
    AddAfterDeleteOfHighest =>
        /\ NewId = ToString(LastRead + 1)
        /\ NewId = inv.deleted <=> ParseI32(inv.deleted).val = LastRead + 1

C8_Witness ==
    /\ AddAfterDeleteOfHighest
    /\ inv.stage = "saved"
    /\ Len(inv.before.records) >= 1
    /\ NewId = inv.deleted

\* C9 (as claimed): Todos::read panics whenever a line after the header line
\* has a number of comma-separated fields other than five, fewer or more.
C9_PanicsUnlessFive ==
    ReadRan =>
        (inv.stage = "read" <=>
            \E i \in 1..Len(RecordLines) : Len(RecordLines[i]) # 5)

\* C9 (amended): Todos::read panics when a line after the header line has
\* fewer than five comma-separated fields; a line of more than five is
\* taken, and its record is made of the first five.
C9_PanicsWhenFewer ==
    ReadRan =>
        /\ inv.stage = "read" <=>
               \E i \in 1..Len(RecordLines) : Len(RecordLines[i]) < 5
        /\ inv.stage # "read" =>
               /\ Len(inv.before.records) = Len(RecordLines)
               /\ \A i \in 1..Len(RecordLines) :
                      inv.before.records[i] =
                          TodoNew(RecordLines[i][1], RecordLines[i][2],
                                  RecordLines[i][3], RecordLines[i][4],
                                  RecordLines[i][5])

C9_Witness ==
    /\ ReadRan
    /\ inv.stage # "read"
    /\ \E i \in 1..Len(RecordLines) : Len(RecordLines[i]) > 5

\* C10 (as claimed): in a sequential run from an absent or empty file on
\* inputs without comma or line break, after every mutating invocation that
\* succeeds the file is exactly the header line and the records of the
\* resulting list, and the next read returns that list.
C10_FileIsSavedList ==
    (inv.stage = "saved" /\ inv.cmd \in {"add", "delete", "done", "clear"}) =>
        /\ file = SaveString(inv.after)
        /\ \E r \in {TodosRead(file)} : ~r.panics /\ r.todos = inv.after

====
